---- MODULE Spec2Model ----
(***************************************************************************)
(* Model of poly_edge_b20_reboot.py: the start-up configuration check, the *)
(* device list, one reboot_ipphone task per device running in a thread     *)
(* pool, the daily HTML report and the retrying e-mail notifier.           *)
(*                                                                         *)
(* A device is identified by its position in devices.csv (its ip and name  *)
(* are determined by it).  Every blocking external call (ping, Chrome      *)
(* start, page load, reboot request, quit, file write, SMTP send, sleep)   *)
(* is one step whose outcome is chosen by the environment.                 *)
(***************************************************************************)
EXTENDS Integers, Sequences, FiniteSets

\* Largest number of rows devices.csv holds in the model.
MaxDevices == 2

\* send_error_email(retries=2, delay=300): the defaults main calls it with.
retries == 2
delay == 300

Devices == 1..MaxDevices

NA == "N/A"
UNREACHABLE == "Unreachable"
IDLE == "0 Active Calls"

\* Text a device can show in its UpTime cell; NA stands for a missing cell.
UpTimeTexts == {NA, "5 days"}
\* Text a device can show in its CallState cell; NA stands for a missing cell.
CallStateTexts == {NA, IDLE, "2 Active Calls", UNREACHABLE}

\* What driver.get(url) of DI_S_.xml can produce: an exception, or a page.
Pages == [loads : {FALSE}, uptime : {NA}, callstate : {NA}]
         \cup [loads : {TRUE}, uptime : UpTimeTexts, callstate : CallStateTexts]

VARIABLES
    mainpc,        \* position of the main script
    EMAIL_CONFIG,  \* None (valid is FALSE) or the loaded configuration
    exitStatus,    \* -1 while running, then the process exit status
    csvOk,         \* whether devices.csv could be read: "unread", "ok", "bad"
    ip_phones,     \* the loaded device list
    log_entries,   \* the shared result list
    pc,            \* position of each device task
    driver,        \* each task's Chrome session: "none", "open", "quit" (quit() was called)
    uptime,        \* each task's local uptime
    callstate,     \* each task's local callstate
    probeCalls,    \* number of pings sent per device
    probeResult,   \* what is_reachable returned per device: "none", "true", "false"
    fetchCalls,    \* number of DI_S_.xml requests per device
    rebootCalls,   \* number of rebootgetconfig.htm requests per device
    branch,        \* how each task left the try body: "none", "skipped", "rebooted", "reboot_error"
    savedReport,   \* logs/<today>_ipphone_report.html: whether written, and its rows
    saveCalls,     \* number of times save_daily_html_log opened the report file for writing
    html,          \* send_error_email's local html
    subject,       \* send_error_email's local subject
    attempt,       \* send_error_email's loop variable
    attemptsMade,  \* SMTP deliveries attempted
    sleeps,        \* seconds slept by the notifier, as a sequence of delays
    emailsSent     \* messages accepted by the SMTP server

vars == <<mainpc, EMAIL_CONFIG, exitStatus, csvOk, ip_phones, log_entries, pc,
          driver, uptime, callstate, probeCalls, probeResult, fetchCalls, rebootCalls,
          branch, savedReport, saveCalls, html, subject, attempt, attemptsMade, sleeps, emailsSent>>

mainVars == <<mainpc, EMAIL_CONFIG, exitStatus, csvOk, ip_phones>>
taskVars == <<pc, driver, uptime, callstate, probeCalls, probeResult, fetchCalls,
              rebootCalls, branch>>
saveVars == <<savedReport, saveCalls>>
mailVars == <<html, subject, attempt, attemptsMade, sleeps, emailsSent>>

\* A task that has ended: it returned, or its exception was stored in its future.
Returned == {"Unreachable", "SkippedBusy", "RebootIssued", "Error"}
Terminal == Returned \cup {"raised"}

Loaded == {d \in Devices : d <= Len(ip_phones)}

\* Python's None for EMAIL_CONFIG: the value "not EMAIL_CONFIG" is true of.
None == [valid |-> FALSE, send_if_error |-> FALSE]

Init ==
    /\ mainpc = "load_config"
    /\ EMAIL_CONFIG = None
    /\ exitStatus = -1
    /\ csvOk = "unread"
    /\ ip_phones = <<>>
    /\ log_entries = <<>>
    /\ pc = [d \in Devices |-> "none"]
    /\ driver = [d \in Devices |-> "none"]
    /\ uptime = [d \in Devices |-> "unset"]
    /\ callstate = [d \in Devices |-> "unset"]
    /\ probeCalls = [d \in Devices |-> 0]
    /\ probeResult = [d \in Devices |-> "none"]
    /\ fetchCalls = [d \in Devices |-> 0]
    /\ rebootCalls = [d \in Devices |-> 0]
    /\ branch = [d \in Devices |-> "none"]
    /\ savedReport = [saved |-> FALSE, rows |-> <<>>]
    /\ saveCalls = 0
    /\ html = <<>>
    /\ subject = "unset"
    /\ attempt = 0
    /\ attemptsMade = 0
    /\ sleeps = <<>>
    /\ emailsSent = 0

(***************************************************************************)
(* Start-up: load_email_config and the EMAIL_CONFIG check.                 *)
(***************************************************************************)

\* email_config.xml: unparsable or incomplete, or the text of <send_if_error>.
ConfigSources == [parses : BOOLEAN, send_if_error : {"true", "false"}]

load_email_config(xml) ==
    IF xml.parses
    THEN [valid |-> TRUE, send_if_error |-> (xml.send_if_error = "true")]
    ELSE None

LoadEmailConfig ==
    /\ mainpc = "load_config"
    /\ \E xml \in ConfigSources : EMAIL_CONFIG' = load_email_config(xml)
    /\ mainpc' = "config_check"
    /\ UNCHANGED <<exitStatus, csvOk, ip_phones, log_entries, taskVars, saveVars, mailVars>>

\* if not EMAIL_CONFIG: sys.exit(1)
ConfigCheck ==
    /\ mainpc = "config_check"
    /\ IF ~EMAIL_CONFIG.valid
       THEN mainpc' = "exited" /\ exitStatus' = 1
       ELSE mainpc' = "read_csv" /\ UNCHANGED exitStatus
    /\ UNCHANGED <<EMAIL_CONFIG, csvOk, ip_phones, log_entries, taskVars, saveVars, mailVars>>

(***************************************************************************)
(* The device list.                                                        *)
(***************************************************************************)

\* devices.csv: missing or with a malformed row, or readable with some rows.
CsvSources == [readable : BOOLEAN, rows : 0..MaxDevices]

read_ipphones_from_csv(src) ==
    IF src.readable THEN [i \in 1..src.rows |-> i] ELSE <<>>

ReadCsv ==
    /\ mainpc = "read_csv"
    /\ \E src \in CsvSources :
          /\ ip_phones' = read_ipphones_from_csv(src)
          /\ csvOk' = IF src.readable THEN "ok" ELSE "bad"
    /\ mainpc' = "start_pool"
    /\ UNCHANGED <<EMAIL_CONFIG, exitStatus, log_entries, taskVars, saveVars, mailVars>>

(***************************************************************************)
(* The thread pool.                                                        *)
(***************************************************************************)

\* ThreadPoolExecutor.__init__ raises ValueError when max_workers <= 0.
PoolCreated(max_workers) == max_workers > 0

\* with ThreadPoolExecutor(max_workers=len(ip_phones)) as executor:
\*     executor.map(reboot_ipphone, ip_phones)      -- submits every task
StartPool ==
    /\ mainpc = "start_pool"
    /\ IF PoolCreated(Len(ip_phones))
       THEN /\ mainpc' = "pool"
            /\ pc' = [d \in Devices |-> IF d \in Loaded THEN "ping" ELSE "none"]
            /\ UNCHANGED exitStatus
       ELSE \* the ValueError is caught by nobody: traceback, exit status 1
            /\ mainpc' = "pool_crashed"
            /\ exitStatus' = 1
            /\ UNCHANGED pc
    /\ UNCHANGED <<EMAIL_CONFIG, csvOk, ip_phones, log_entries, driver, uptime, callstate,
                   probeCalls, probeResult, fetchCalls, rebootCalls, branch, saveVars,
                   mailVars>>

\* Faulty variant: the pool is shut down with wait=False.
JoinReady_NoWait == TRUE

\* shutdown(wait=True) returns when every submitted task has ended.
JoinReady == \A d \in Loaded : pc[d] \in Terminal

\* Leaving the with block is executor.shutdown(wait=True).  The iterator that
\* executor.map returned is never read, so a task's stored exception is dropped.
JoinPool ==
    /\ mainpc = "pool"
    /\ JoinReady
    /\ mainpc' = "save_log"
    /\ UNCHANGED <<EMAIL_CONFIG, exitStatus, csvOk, ip_phones, log_entries, taskVars,
                   saveVars, mailVars>>

(***************************************************************************)
(* reboot_ipphone(device), one task per device.                            *)
(***************************************************************************)

\* Faulty variant: an unsynchronised insert that overwrites the last slot.
log_append_LostUpdate(entries, e) ==
    IF entries = <<>> THEN <<e>> ELSE [entries EXCEPT ![Len(entries)] = e]

\* list.append on the shared list is atomic in CPython.
log_append(entries, e) == Append(entries, e)

\* Faulty variant: the unreachable device is recorded with the N/A sentinel.
UnreachableEntry_AsNA(d) == [ip |-> d, uptime |-> NA, callstate |-> NA]

\* log_entries.append((ip, name, "N/A", "Unreachable"))
UnreachableEntry(d) == [ip |-> d, uptime |-> NA, callstate |-> UNREACHABLE]

\* get_ipphone_status: the pair it returns for what the page load produced.
get_ipphone_status(page) ==
    IF page.loads THEN <<page.uptime, page.callstate>> ELSE <<NA, NA>>

\* Faulty variant: a device whose call-state is unknown is rebooted too.
ShouldReboot_AlsoNA(cs) == cs \in {IDLE, NA}

\* Faulty variant: the idle test is inverted.
ShouldReboot_Inverted(cs) == cs # IDLE

\* if callstate != "0 Active Calls": ... return
ShouldReboot(cs) == cs = IDLE

\* Faulty variant: a failed reboot request sends the task round the try again.
AfterTry_RetryOnError(b) == IF b = "reboot_error" THEN "try" ELSE "finally"

\* Faulty variant: driver.quit() sits at the end of the try body, not in a finally,
\* so the except path ends the task without it.
AfterTry_NoFinally(b) == IF b = "reboot_error" THEN "Error" ELSE "finally"

\* try: ... finally: every way out of the try body runs the finally block.
AfterTry(b) == "finally"

\* Faulty variant: the except path is taken for a triggered reboot.
TerminalOf_ErrorAsIssued(b) ==
    CASE b = "skipped" -> "SkippedBusy"
      [] b = "rebooted" -> "RebootIssued"
      [] b = "reboot_error" -> "RebootIssued"

TerminalOf(b) ==
    CASE b = "skipped" -> "SkippedBusy"
      [] b = "rebooted" -> "RebootIssued"
      [] b = "reboot_error" -> "Error"

\* if not is_reachable(ip): ... return
Probe(d) ==
    /\ pc[d] = "ping"
    /\ probeCalls' = [probeCalls EXCEPT ![d] = @ + 1]
    /\ \E is_reachable \in BOOLEAN :
          /\ probeResult' = [probeResult EXCEPT ![d] = IF is_reachable THEN "true" ELSE "false"]
          /\ IF ~is_reachable
             THEN /\ log_entries' = log_append(log_entries, UnreachableEntry(d))
                  /\ pc' = [pc EXCEPT ![d] = "Unreachable"]
             ELSE /\ pc' = [pc EXCEPT ![d] = "create_driver"]
                  /\ UNCHANGED log_entries
    /\ UNCHANGED <<mainVars, driver, uptime, callstate, fetchCalls, rebootCalls, branch,
                   saveVars, mailVars>>

\* driver = create_driver(): webdriver.Chrome(...) may raise, outside any try.
CreateDriver(d) ==
    /\ pc[d] = "create_driver"
    /\ \E started \in BOOLEAN :
          IF started
          THEN /\ driver' = [driver EXCEPT ![d] = "open"]
               /\ pc' = [pc EXCEPT ![d] = "get_status"]
          ELSE /\ pc' = [pc EXCEPT ![d] = "raised"]
               /\ UNCHANGED driver
    /\ UNCHANGED <<mainVars, log_entries, uptime, callstate, probeCalls, probeResult,
                   fetchCalls, rebootCalls, branch, saveVars, mailVars>>

\* uptime, callstate = get_ipphone_status(...); log_entries.append(...)
GetStatus(d) ==
    /\ pc[d] = "get_status"
    /\ fetchCalls' = [fetchCalls EXCEPT ![d] = @ + 1]
    /\ \E page \in Pages :
          LET st == get_ipphone_status(page) IN
          /\ uptime' = [uptime EXCEPT ![d] = st[1]]
          /\ callstate' = [callstate EXCEPT ![d] = st[2]]
          /\ log_entries' = log_append(log_entries,
                               [ip |-> d, uptime |-> st[1], callstate |-> st[2]])
    /\ pc' = [pc EXCEPT ![d] = "try"]
    /\ UNCHANGED <<mainVars, driver, probeCalls, probeResult, rebootCalls, branch,
                   saveVars, mailVars>>

\* The try body: skip, or driver.get(reboot_url), which may raise.
TryReboot(d) ==
    /\ pc[d] = "try"
    /\ IF ~ShouldReboot(callstate[d])
       THEN /\ branch' = [branch EXCEPT ![d] = "skipped"]
            /\ pc' = [pc EXCEPT ![d] = AfterTry("skipped")]
            /\ UNCHANGED rebootCalls
       ELSE /\ rebootCalls' = [rebootCalls EXCEPT ![d] = @ + 1]
            /\ \E b \in {"rebooted", "reboot_error"} :
                  /\ branch' = [branch EXCEPT ![d] = b]
                  /\ pc' = [pc EXCEPT ![d] = AfterTry(b)]
    /\ UNCHANGED <<mainVars, log_entries, driver, uptime, callstate, probeCalls, probeResult,
                   fetchCalls, saveVars, mailVars>>

\* finally: try: driver.quit() except: pass
Finally(d) ==
    /\ pc[d] = "finally"
    /\ \E quit_raised \in BOOLEAN :  \* swallowed by "except: pass" either way
          driver' = [driver EXCEPT ![d] = "quit"]
    /\ pc' = [pc EXCEPT ![d] = TerminalOf(branch[d])]
    /\ UNCHANGED <<mainVars, log_entries, uptime, callstate, probeCalls, probeResult,
                   fetchCalls, rebootCalls, branch, saveVars, mailVars>>

Task(d) == Probe(d) \/ CreateDriver(d) \/ GetStatus(d) \/ TryReboot(d) \/ Finally(d)

(***************************************************************************)
(* build_html_report, save_daily_html_log, get_email_subject.              *)
(***************************************************************************)

\* Faulty variant: the last elif tests == instead of !=.
status_IdleTestFlipped(cs) ==
    IF cs = UNREACHABLE THEN "Unreachable"
    ELSE IF cs = NA THEN "Error"
    ELSE IF cs = IDLE THEN "Skipped"
    ELSE "Rebooted"

\* The if/elif chain of build_html_report: the Status cell of a row.
status(cs) ==
    IF cs = UNREACHABLE THEN "Unreachable"
    ELSE IF cs = NA THEN "Error"
    ELSE IF cs # IDLE THEN "Skipped"
    ELSE "Rebooted"

\* One <tr> per entry, numbered from 1 in list order.
build_html_report(entries) ==
    [i \in 1..Len(entries) |->
        [idx |-> i, ip |-> entries[i].ip, uptime |-> entries[i].uptime,
         callstate |-> entries[i].callstate, status |-> status(entries[i].callstate)]]

ERRORS_FOUND == "Errors Found"
ALL_OK == "All OK"

\* The for loop of get_email_subject from entry i on: return at the first match.
RECURSIVE subject_scan(_, _)
subject_scan(entries, i) ==
    IF i > Len(entries) THEN ALL_OK
    ELSE IF entries[i].callstate \in {NA, UNREACHABLE} THEN ERRORS_FOUND
    ELSE subject_scan(entries, i + 1)

\* Faulty variant: the final return sits inside the loop, so only the first
\* entry is looked at.
get_email_subject_FirstOnly(entries) ==
    IF entries # <<>> /\ entries[1].callstate \in {NA, UNREACHABLE}
    THEN ERRORS_FOUND ELSE ALL_OK

get_email_subject(entries) == subject_scan(entries, 1)

\* Faulty variant: building the report consumes the list.
EntriesAfterBuild_Drained(entries) == <<>>

\* build_html_report only iterates over log_entries: the list is left as it was.
EntriesAfterBuild(entries) == entries

\* os.makedirs("logs") is outside the try; the file write is inside it.
SaveDailyHtmlLog ==
    /\ mainpc = "save_log"
    /\ \E logs_dir_ok \in BOOLEAN, write_ok \in BOOLEAN :
          IF ~logs_dir_ok
          THEN \* OSError from os.makedirs: traceback, exit status 1
               /\ mainpc' = "save_crashed"
               /\ exitStatus' = 1
               /\ UNCHANGED <<saveVars, log_entries>>
          ELSE /\ mainpc' = "check_send"
               /\ saveCalls' = saveCalls + 1
               /\ savedReport' = IF write_ok
                                 THEN [saved |-> TRUE, rows |-> build_html_report(log_entries)]
                                 ELSE savedReport
               /\ log_entries' = IF write_ok THEN EntriesAfterBuild(log_entries)
                                 ELSE log_entries
               /\ UNCHANGED exitStatus
    /\ UNCHANGED <<EMAIL_CONFIG, csvOk, ip_phones, taskVars, mailVars>>

(***************************************************************************)
(* send_error_email(retries=2, delay=300).                                 *)
(***************************************************************************)

\* Faulty variant: one attempt more than the loop makes.
AttemptRange_OneMore == 1..(retries + 1)

\* for attempt in range(1, retries+1)
AttemptRange == 1..retries

\* Faulty variant: the cooldown follows every failed attempt, the last included.
SleepsAfter_Always(a) == TRUE

\* if attempt < retries: time.sleep(delay)
SleepsAfter(a) == a < retries

\* Faulty variant: the report is mailed only when a device result is an error.
ShouldSend_OnlyOnErrors(config, entries) ==
    config.send_if_error /\ get_email_subject(entries) = ERRORS_FOUND

\* if EMAIL_CONFIG["send_if_error"]: the flag alone decides.
ShouldSend(config, entries) == config.send_if_error

\* The script's last statement: if EMAIL_CONFIG["send_if_error"]: send_error_email()
CheckSend ==
    /\ mainpc = "check_send"
    /\ IF ShouldSend(EMAIL_CONFIG, log_entries)
       THEN /\ html' = build_html_report(log_entries)
            /\ log_entries' = EntriesAfterBuild(log_entries)
            /\ subject' = get_email_subject(log_entries')
            /\ IF 1 \in AttemptRange
               THEN mainpc' = "smtp" /\ attempt' = 1 /\ UNCHANGED exitStatus
               ELSE mainpc' = "done" /\ exitStatus' = 0 /\ UNCHANGED attempt
       ELSE /\ mainpc' = "done"
            /\ exitStatus' = 0
            /\ UNCHANGED <<html, subject, attempt, log_entries>>
    /\ UNCHANGED <<EMAIL_CONFIG, csvOk, ip_phones, taskVars, saveVars,
                   attemptsMade, sleeps, emailsSent>>

\* One pass of the loop body up to the sleep: build the message, send it.
SmtpAttempt ==
    /\ mainpc = "smtp"
    /\ attemptsMade' = attemptsMade + 1
    /\ \E sent \in BOOLEAN :
          IF sent
          THEN \* break
               /\ emailsSent' = emailsSent + 1
               /\ mainpc' = "done"
               /\ exitStatus' = 0
               /\ UNCHANGED attempt
          ELSE /\ UNCHANGED emailsSent
               /\ IF SleepsAfter(attempt)
                  THEN mainpc' = "sleep" /\ UNCHANGED <<attempt, exitStatus>>
                  ELSE IF attempt + 1 \in AttemptRange
                       THEN mainpc' = "smtp" /\ attempt' = attempt + 1 /\ UNCHANGED exitStatus
                       ELSE mainpc' = "done" /\ exitStatus' = 0 /\ UNCHANGED attempt
    /\ UNCHANGED <<EMAIL_CONFIG, csvOk, ip_phones, log_entries, taskVars, saveVars,
                   html, subject, sleeps>>

\* time.sleep(delay), then the loop's next value.
Sleep ==
    /\ mainpc = "sleep"
    /\ sleeps' = Append(sleeps, delay)
    /\ IF attempt + 1 \in AttemptRange
       THEN mainpc' = "smtp" /\ attempt' = attempt + 1 /\ UNCHANGED exitStatus
       ELSE mainpc' = "done" /\ exitStatus' = 0 /\ UNCHANGED attempt
    /\ UNCHANGED <<EMAIL_CONFIG, csvOk, ip_phones, log_entries, taskVars, saveVars,
                   html, subject, attemptsMade, emailsSent>>

(***************************************************************************)
(* The program.                                                            *)
(***************************************************************************)

Next ==
    \/ LoadEmailConfig
    \/ ConfigCheck
    \/ ReadCsv
    \/ StartPool
    \/ \E d \in Devices : Task(d)
    \/ JoinPool
    \/ SaveDailyHtmlLog
    \/ CheckSend
    \/ SmtpAttempt
    \/ Sleep

Spec == Init /\ [][Next]_vars

\* Every thread is scheduled and every external call returns or raises.
FairSpec == Spec /\ WF_vars(Next) /\ \A d \in Devices : WF_vars(Task(d))

\* The process has ended: normally, by sys.exit(1), or by an uncaught exception.
Ended == mainpc \in {"done", "exited", "pool_crashed", "save_crashed"}

\* The with block has been left: every device task has been joined.
FleetJoined == mainpc \in {"save_log", "check_send", "smtp", "sleep", "done", "save_crashed"}

\* The positions in log_entries of the entries recorded for device d.
EntriesOf(d) == {i \in 1..Len(log_entries) : log_entries[i].ip = d}

\* The entries recorded for device d, in order.
ResultOf(d) == SelectSeq(log_entries, LAMBDA e : e.ip = d)

(***************************************************************************)
(* Properties.                                                             *)
(***************************************************************************)

\* The rows of the report built from the current log_entries that belong to d.
RowsOf(d) == {r \in {build_html_report(log_entries)[i] : i \in 1..Len(log_entries)} : r.ip = d}

\* C1: once every device task has been joined, log_entries holds exactly one
\* entry per loaded device, whatever the devices' outcomes and interleaving.
C1_OneEntryPerDevice ==
    FleetJoined =>
        /\ Len(log_entries) = Len(ip_phones)
        /\ \A d \in Loaded : Cardinality(EntriesOf(d)) = 1

\* C2: a device whose ping failed is recorded once, with call-state
\* "Unreachable" and report status Unreachable, and has no Chrome session, no
\* status fetch and no reboot request, at any point of the run.
C2_UnreachableGate ==
    \A d \in Devices :
        probeResult[d] = "false" =>
            /\ ResultOf(d) = <<[ip |-> d, uptime |-> NA, callstate |-> UNREACHABLE]>>
            /\ \A r \in RowsOf(d) : r.status = "Unreachable"
            /\ driver[d] = "none"
            /\ fetchCalls[d] = 0
            /\ rebootCalls[d] = 0

C2_Witness ==
    /\ mainpc = "done"
    /\ \E d \in Loaded : probeResult[d] = "false" /\ RowsOf(d) # {}

\* C3: a reachable device whose fetched call-state is anything but
\* "0 Active Calls" gets no reboot request, and its report row is Skipped or
\* Error, never Rebooted or Unreachable.
C3_NotIdleNoReboot ==
    \A d \in Devices :
        (probeResult[d] = "true" /\ callstate[d] \notin {"unset", IDLE}) =>
            /\ rebootCalls[d] = 0
            /\ \A r \in RowsOf(d) : r.status \in {"Skipped", "Error"}

\* C4: a reachable device whose fetched call-state is "0 Active Calls" has had
\* exactly one reboot request when its task ends, whether the request failed
\* or not; no device ever has more than one.
C4_RebootExactlyOnce ==
    \A d \in Devices :
        /\ rebootCalls[d] <= 1
        /\ (probeResult[d] = "true" /\ callstate[d] = IDLE /\ pc[d] \in {"finally"} \cup Terminal)
              => rebootCalls[d] = 1

C4_Witness ==
    \E d \in Loaded, e \in Loaded :
        /\ callstate[d] = IDLE /\ pc[d] = "Error" /\ rebootCalls[d] = 1
        /\ callstate[e] = IDLE /\ pc[e] = "RebootIssued" /\ rebootCalls[e] = 1

\* C5: with a missing or malformed devices.csv the run still completes: the
\* process ends normally (past the fleet pass, the report save and the send
\* decision) with exit status 0, never by a fatal error.
C5_EmptyListCompletes ==
    (csvOk = "bad" /\ Ended) => (mainpc = "done" /\ exitStatus = 0)

\* C6: the process exit status is nonzero exactly when the e-mail
\* configuration is missing or invalid.
C6_ExitStatus ==
    Ended => ((exitStatus # 0) <=> ~EMAIL_CONFIG.valid)

\* C7: no device task ends by raising an exception.
C7_NoTaskRaises ==
    \A d \in Devices : pc[d] # "raised"

\* What a device task owns, and what it has recorded.
LocalState(d) ==
    <<pc[d], driver[d], uptime[d], callstate[d], probeCalls[d], probeResult[d],
      fetchCalls[d], rebootCalls[d], branch[d], ResultOf(d)>>

\* The join waits for nothing but the tasks' ends, a raised task included.
JoinNotBlocked ==
    (mainpc = "pool" /\ \A d \in Loaded : pc[d] \in Terminal) => ENABLED JoinPool

\* C8: a step of device A's task, whether it succeeds, fails or raises, leaves
\* every other device's task state and recorded result unchanged, and tasks
\* that have all ended (by returning or by raising) never hold up the join.
C8_Independence ==
    /\ []JoinNotBlocked
    /\ [][\A a \in Devices : Task(a) =>
             \A b \in Devices \ {a} : LocalState(b)' = LocalState(b)]_vars

C8_Witness ==
    /\ mainpc = "check_send"
    /\ \E a \in Loaded, b \in Loaded :
          /\ a < b
          /\ pc[a] = "raised"
          /\ pc[b] = "RebootIssued"
          /\ log_entries = <<[ip |-> b, uptime |-> "5 days", callstate |-> IDLE]>>

\* C9: a task that has ended holds no open Chrome session: quit() was called
\* on every session it acquired, on the skip, fetch-failure, reboot and
\* reboot-exception paths; after the join no session is open.
C9_SessionReleased ==
    /\ \A d \in Devices : pc[d] \in Terminal => driver[d] # "open"
    /\ FleetJoined => \A d \in Devices : driver[d] # "open"

C9_Witness ==
    /\ FleetJoined
    /\ \E d \in Loaded, e \in Loaded :
          /\ pc[d] = "Error" /\ driver[d] = "quit"
          /\ pc[e] = "SkippedBusy" /\ callstate[e] = NA /\ driver[e] = "quit"

\* The notifier was entered and has returned with every delivery failed.
DeliveryGaveUp == mainpc = "done" /\ EMAIL_CONFIG.send_if_error /\ emailsSent = 0

\* The notifier never ends the process by an exception.
NotifierReturns == (Ended /\ attempt > 0) => (mainpc = "done" /\ exitStatus = 0)

\* C10 as stated: on persistent failure `retries` re-attempts follow the first
\* failed attempt, with one cooldown between consecutive attempts, and the
\* notifier returns.
C10_RetriesReattempts ==
    /\ NotifierReturns
    /\ DeliveryGaveUp =>
          /\ attemptsMade = 1 + retries
          /\ sleeps = [i \in 1..(attemptsMade - 1) |-> delay]

\* C10 amended: on persistent failure the notifier makes `retries` attempts in
\* all (retries - 1 re-attempts), with one cooldown between consecutive
\* attempts, and returns.
C10_RetriesAttempts ==
    /\ NotifierReturns
    /\ DeliveryGaveUp =>
          /\ attemptsMade = retries
          /\ sleeps = [i \in 1..(attemptsMade - 1) |-> delay]

C10_Witness ==
    DeliveryGaveUp /\ attemptsMade = 2 /\ sleeps = <<delay>>

\* No loaded device's task is still running (probing, starting Chrome,
\* fetching, rebooting or quitting).
NoTaskRunning == \A d \in Loaded : pc[d] \in Terminal

\* C11: the report save, the report build for the e-mail, every delivery
\* attempt and every cooldown sleep happen only when no device task is still
\* running.
C11_ReportAfterJoin ==
    (\/ FleetJoined
     \/ saveCalls > 0
     \/ savedReport.saved
     \/ subject # "unset"
     \/ attemptsMade > 0
     \/ sleeps # <<>>) => NoTaskRunning

C11_Witness ==
    /\ mainpc = "sleep"
    /\ Len(ip_phones) = 2
    /\ savedReport.saved
    /\ \E d \in Loaded : pc[d] = "RebootIssued"

\* The orderings of a list: one list per permutation of its positions.
Orderings(entries) ==
    LET n == Len(entries)
        perms == {f \in [1..n -> 1..n] : \A i, j \in 1..n : f[i] = f[j] => i = j}
    IN {[i \in 1..n |-> entries[f[i]]] : f \in perms}

HasErrorEntry(entries) ==
    \E i \in 1..Len(entries) : entries[i].callstate \in {NA, UNREACHABLE}

\* C12: the subject is "Errors Found" exactly when some recorded result has
\* call-state "N/A" or "Unreachable", for the list as recorded and for every
\* other order of it, and the subject the notifier used is the one a new call
\* on the list returns.
C12_SubjectIffError ==
    /\ \A o \in Orderings(log_entries) :
          /\ get_email_subject(o) \in {ERRORS_FOUND, ALL_OK}
          /\ (get_email_subject(o) = ERRORS_FOUND) <=> HasErrorEntry(log_entries)
    /\ subject # "unset" => subject = get_email_subject(log_entries)

C12_Witness ==
    /\ mainpc = "done"
    /\ subject = ERRORS_FOUND
    /\ Len(log_entries) = 2
    /\ log_entries[1].callstate = IDLE
    /\ log_entries[2].callstate = NA

\* C13: after the join log_entries is never modified (not by building, saving
\* or sending the report), so the report written to the daily file, the report
\* put in the e-mail and a new build from the list are the same.
C13_ReportStable ==
    /\ [][FleetJoined => log_entries' = log_entries]_vars
    /\ [](savedReport.saved => savedReport.rows = build_html_report(log_entries))
    /\ [](subject # "unset" => html = build_html_report(log_entries))
    /\ []((savedReport.saved /\ subject # "unset") => savedReport.rows = html)

C13_Witness ==
    /\ mainpc = "done"
    /\ savedReport.saved
    /\ emailsSent = 1
    /\ Len(html) = 2
    /\ savedReport.rows = html

\* C14: when the reboot request fails the task ends in Error, after the
\* finally block: the request was made once and is not repeated, the recorded
\* result is the one entry made from the status fetch, with its uptime and
\* call-state, and the join is not held up.
C14_RebootFailure ==
    /\ JoinNotBlocked
    /\ \A d \in Devices :
          branch[d] = "reboot_error" =>
              /\ pc[d] \in {"finally", "Error"}
              /\ rebootCalls[d] = 1
              /\ ResultOf(d) = <<[ip |-> d, uptime |-> uptime[d], callstate |-> callstate[d]]>>
              /\ callstate[d] = IDLE

C14_Witness ==
    /\ mainpc = "done"
    /\ \E d \in Loaded, e \in Loaded :
          /\ pc[d] = "Error" /\ uptime[d] = "5 days"
          /\ pc[e] = "RebootIssued"

\* C15 as stated: the row of a device whose reboot request failed shows the
\* failure: it carries the sentinel call-state and the Error classification,
\* like the row of a device whose status extraction failed.
C15_FailureShownAsError ==
    \A d \in Devices :
        (FleetJoined /\ pc[d] = "Error") =>
            \A r \in RowsOf(d) : r.status = "Error" /\ r.callstate = NA

\* C15 amended: the row of a device whose reboot request failed keeps the
\* call-state "0 Active Calls" and is classified Rebooted, never Error: it is
\* the row a successful reboot gives (only its uptime can be the sentinel).
C15_FailureShownAsRebooted ==
    \A d \in Devices :
        branch[d] = "reboot_error" =>
            /\ RowsOf(d) # {}
            /\ \A r \in RowsOf(d) :
                  /\ r.status = "Rebooted"
                  /\ r.callstate = IDLE
                  /\ r.uptime = uptime[d]

C15_Witness ==
    /\ mainpc = "done"
    /\ \E d \in Loaded, e \in Loaded :
          /\ pc[d] = "Error"
          /\ \E r \in RowsOf(d) : r.uptime = NA /\ r.status = "Rebooted"
          /\ pc[e] = "SkippedBusy"
          /\ \E r \in RowsOf(e) : r.status = "Error"

\* C16: no step of a device's pipeline is repeated: at most one ping, one
\* status request and one reboot request per device, whatever their outcomes.
C16_NoRetry ==
    \A d \in Devices :
        /\ probeCalls[d] <= 1
        /\ fetchCalls[d] <= 1
        /\ rebootCalls[d] <= 1
        /\ d \notin Loaded => probeCalls[d] = 0

C16_Witness ==
    /\ mainpc = "done"
    /\ \E d \in Loaded, e \in Loaded :
          /\ pc[d] = "Error" /\ probeCalls[d] = 1 /\ fetchCalls[d] = 1 /\ rebootCalls[d] = 1
          /\ pc[e] = "Unreachable" /\ probeCalls[e] = 1

\* C17: under fair scheduling, with every external call returning or raising,
\* every launched device task reaches Unreachable, SkippedBusy, RebootIssued or
\* Error, and a run that launched its tasks comes to its end.
C17_Termination ==
    /\ \A d \in Devices : (pc[d] = "ping") ~> (pc[d] \in Returned)
    /\ (mainpc = "pool") ~> Ended

ReportRows ==
    {savedReport.rows[i] : i \in 1..Len(savedReport.rows)} \cup {html[i] : i \in 1..Len(html)}

\* C19: in the reports of a run a row is labelled Rebooted exactly when a
\* reboot request was made for its device; Unreachable, Error and Skipped rows
\* belong to devices for which none was made.
C19_RebootedIffIssued ==
    \A r \in ReportRows :
        /\ (r.status = "Rebooted") <=> (rebootCalls[r.ip] = 1)
        /\ r.status \in {"Unreachable", "Error", "Skipped"} => rebootCalls[r.ip] = 0

C19_Witness ==
    /\ mainpc = "done"
    /\ savedReport.saved
    /\ \E r \in ReportRows : r.status = "Rebooted" /\ pc[r.ip] = "Error"
    /\ \E r \in ReportRows : r.status = "Skipped" /\ rebootCalls[r.ip] = 0

\* C20: the notifier makes at most `retries` attempts, stops at the first
\* success (at most one e-mail), and sleeps once after each failed attempt
\* that another attempt follows: when it returns the sleeps number one less
\* than the attempts, and each lasts `delay`.
C20_AttemptsAndSleeps ==
    /\ attemptsMade <= retries
    /\ emailsSent <= 1
    /\ emailsSent = 1 => mainpc = "done"
    /\ sleeps = [i \in 1..Len(sleeps) |-> delay]
    /\ mainpc = "smtp" => Len(sleeps) = attemptsMade
    /\ mainpc = "sleep" => (Len(sleeps) = attemptsMade - 1 /\ emailsSent = 0 /\ attempt < retries)
    /\ (mainpc = "done" /\ attemptsMade > 0) => Len(sleeps) = attemptsMade - 1

C20_Witness ==
    /\ mainpc = "done"
    /\ emailsSent = 1
    /\ attemptsMade = 2
    /\ sleeps = <<delay>>

====
